---- MODULE Spec2Model ----
(***************************************************************************)
(* Volatility analytics and risk-banding pipeline.                         *)
(*                                                                         *)
(*   ses_handler.py      notification fan-out, dedup by a DynamoDB         *)
(*                       conditional update of lastEmailSent               *)
(*   ses_handler_new.py  notification fan-out, dedup by a /tmp marker file *)
(*   risk_handler.py     prediction handler writing PredictedVolatility    *)
(*                                                                         *)
(* Numbers: volatilities, targets and tolerances are exact rationals       *)
(* <<n, d>> with d > 0 (the code's floats without rounding); time is in    *)
(* whole clock units, as int(time.time()) is.                              *)
(***************************************************************************)
EXTENDS Integers, Sequences, FiniteSets, TLC

VARIABLES
    clock,          \* time.time(), the wall clock shared by all invocations
    client_table,   \* DynamoDB CLIENT_TABLE: ClientID -> item
    pred_table,     \* DynamoDB PREDICTIONS_TABLE: set of items (ticker, date) -> item
    tmp_marker,     \* /tmp/email_sent_<client_id>: mtime, or None when absent
    pc,             \* per invocation: position in lambda_handler
    frame,          \* per invocation: the handler's local variables
    trace,          \* per invocation: the component calls made, in order
    outbox,         \* ses.send_email calls accepted by the delivery gateway
    probe,          \* inputs and result of a pure function under check
    MODEL_CACHE,    \* risk_handler.py: the module's model holder
    model_file,     \* /tmp/volatility_model.pkl of the prediction process
    model_object,   \* the artifact at s3://MODEL_BUCKET/MODEL_KEY
    invocations     \* the prediction process's invocations so far, in order

\* The state of the prediction process and of its artifact source
risk_vars == <<MODEL_CACHE, model_file, model_object, invocations>>

vars == <<clock, client_table, pred_table, tmp_marker, pc, frame, trace, outbox, probe,
          risk_vars>>

\* Python's None, and an attribute an item does not have
None == <<>>
\* A holding's or stream image's missing or empty ticker ("not ticker")
NoTicker == ""

------------------------------------------------------------------------------
(* Bounds and configuration *)

MaxClock == 3
MaxRecords == 1
MaxHoldings == 2

\* EMAIL_COOLDOWN_SECONDS, in clock units
EMAIL_COOLDOWN_SECONDS == 1
\* VOL_TOLERANCE_DEFAULT, in percent (0.10)
VOL_TOL_DEFAULT == 10

Procs == {"p1", "p2"}
Clients == {"c1", "c2"}
Tickers == {"A", "B"}

------------------------------------------------------------------------------
(* Exact arithmetic on rationals <<n, d>>, d > 0 *)

Rat(n, d) == <<n, d>>
RLe(a, b) == a[1] * b[2] <= b[1] * a[2]
REq(a, b) == a[1] * b[2] = b[1] * a[2]
RMul(a, b) == <<a[1] * b[1], a[2] * b[2]>>

RAdd(a, b) == <<a[1] * b[2] + b[1] * a[2], a[2] * b[2]>>
RSub(a, b) == <<a[1] * b[2] - b[1] * a[2], a[2] * b[2]>>
\* a / b for b > 0
RDiv(a, b) == <<a[1] * b[2], a[2] * b[1]>>
RPos(a) == a[1] > 0
RZero(a) == a[1] = 0

\* A stored attribute that does not parse as a number
Bad == <<"bad">>

\* to_float: None and unparsable values give None, a Decimal its value
to_float(x) == IF x = None \/ x = Bad THEN None ELSE x

------------------------------------------------------------------------------
(* risk_handler.py: the date key of a VolatilityRecord *)

\* latest_date.strftime("%d.%m.%Y") as the bytes of the string
strftime_dmy(date) ==
    << 48 + (date.d \div 10), 48 + (date.d % 10), 46,
       48 + (date.m \div 10), 48 + (date.m % 10), 46,
       48 + (date.y \div 1000), 48 + ((date.y \div 100) % 10),
       48 + ((date.y \div 10) % 10), 48 + (date.y % 10) >>

\* DynamoDB's order of string sort keys: byte by byte
RECURSIVE StrLess(_, _)
StrLess(a, b) ==
    IF a = <<>> THEN b # <<>>
    ELSE IF b = <<>> THEN FALSE
    ELSE IF Head(a) # Head(b) THEN Head(a) < Head(b)
    ELSE StrLess(Tail(a), Tail(b))

\* table.put_item(Item=item): upsert by (ticker, date)
put_item(table, item) ==
    {i \in table : ~(i.ticker = item.ticker /\ i.date = item.date)} \cup {item}

------------------------------------------------------------------------------
(* risk_handler.py: compute_features *)

\* WINDOW = 30
WINDOW == 30
\* The bars a price frame has beyond WINDOW, at most
MaxExtraBars == 2
\* The rises, and the falls, of a price series, at most
MaxMoves == 2

\* A float64 as a reduced fraction <<n, d>>, d > 0; nan is <<0, 0>> and inf
\* is <<1, 0>>, what numpy gives for 0/0 and for x/0 with x > 0
NaN == <<0, 0>>
Inf == <<1, 0>>

Abs(x) == IF x < 0 THEN -x ELSE x

RECURSIVE GCD(_, _)
GCD(a, b) == IF b = 0 THEN a ELSE GCD(b, a % b)

Reduce(x) ==
    LET g == GCD(Abs(x[1]), x[2])
    IN  <<x[1] \div g, x[2] \div g>>

\* Series / Series, elementwise: no exception on a zero divisor
FDiv(a, b) ==
    IF a = NaN \/ b = NaN THEN NaN
    ELSE IF b[1] = 0 THEN (IF a[1] = 0 THEN NaN ELSE Inf)
    ELSE IF b[1] > 0 THEN Reduce(<<a[1] * b[2], a[2] * b[1]>>)
    ELSE Reduce(<<-(a[1] * b[2]), a[2] * (-b[1])>>)

\* nan in, nan out
FAdd(a, b) ==
    IF a = NaN \/ b = NaN THEN NaN
    ELSE LET g == GCD(a[2], b[2])
         IN  Reduce(<<a[1] * (b[2] \div g) + b[1] * (a[2] \div g),
                      (a[2] \div g) * b[2]>>)

FSub(a, b) == FAdd(a, <<-b[1], b[2]>>)

FMul(a, b) ==
    IF a = NaN \/ b = NaN THEN NaN ELSE Reduce(<<a[1] * b[1], a[2] * b[2]>>)
FLess(a, b) == a[1] * b[2] < b[1] * a[2]
FInt(k) == <<k, 1>>
FZero(x) == x[2] # 0 /\ x[1] = 0

\* Series.pct_change(periods) at row i: nan on the first periods rows
pct_change(col, periods, i) ==
    IF i - periods < 1 THEN NaN
    ELSE FDiv(FSub(col[i], col[i - periods]), col[i - periods])

\* The rows of the window of Series.rolling(WINDOW) that ends at row i
rolling(col, i) == {j \in DOMAIN col : i - WINDOW < j /\ j <= i}

\* min_periods is the window: a window with fewer than WINDOW numbers has
\* no result
rolling_defined(col, i) ==
    Cardinality({j \in rolling(col, i) : col[j] # NaN}) >= WINDOW

\* The sum of f over the rows lo..hi, by halves
RECURSIVE SumRows(_, _, _)
SumRows(f, lo, hi) ==
    IF lo > hi THEN FInt(0)
    ELSE IF lo = hi THEN f[lo]
    ELSE LET mid == (lo + hi) \div 2
         IN  FAdd(SumRows(f, lo, mid), SumRows(f, mid + 1, hi))

rolling_sum(col, i) ==
    IF ~rolling_defined(col, i) THEN NaN ELSE SumRows(col, i - WINDOW + 1, i)

rolling_max(col, i) ==
    IF ~rolling_defined(col, i) THEN NaN
    ELSE CHOOSE m \in {col[j] : j \in rolling(col, i)} :
             \A j \in rolling(col, i) : ~FLess(m, col[j])

\* rolling(WINDOW).std(), kept as its square: the sample variance
\* (WINDOW * sum of squares - square of sum) / (WINDOW * (WINDOW - 1))
rolling_std(col, i) ==
    IF ~rolling_defined(col, i) THEN NaN
    ELSE LET sq == [j \in DOMAIN col |-> FMul(col[j], col[j])]
             s1 == SumRows(col, i - WINDOW + 1, i)
             s2 == SumRows(sq, i - WINDOW + 1, i)
         IN  FDiv(FSub(FMul(FInt(WINDOW), s2), FMul(s1, s1)),
                  FInt(WINDOW * (WINDOW - 1)))

\* features.fillna({...}): the columns of the dict, nan only
fillna(features) ==
    [features EXCEPT
        !.momentum_30d = IF @ = NaN THEN FInt(0) ELSE @,
        !.max_drawdown_30d = IF @ = NaN THEN FInt(0) ELSE @,
        !.up_down_ratio = IF @ = NaN THEN FInt(1) ELSE @]

\* compute_features on a frame sorted by date, given by its close column
\* (its adj_close column is absent, empty or equal to close): the last row
\* of the features, for the columns made of the prices alone.
\* volatility_30d holds the square of the rolling standard deviation.
compute_features(close) ==
    LET rows == DOMAIN close
        n == Len(close)
        adj_close == [i \in rows |-> FInt(close[i])]
        return == [i \in rows |-> pct_change(adj_close, 1, i)]
        roll_max == rolling_max(adj_close, n)
        up == [i \in rows |->
                  IF return[i] # NaN /\ FLess(FInt(0), return[i]) THEN FInt(1) ELSE FInt(0)]
        down == [i \in rows |->
                  IF return[i] # NaN /\ FLess(return[i], FInt(0)) THEN FInt(1) ELSE FInt(0)]
    IN  fillna([volatility_30d |-> rolling_std(return, n),
                momentum_30d |-> pct_change(adj_close, WINDOW, n),
                max_drawdown_30d |-> FDiv(FSub(adj_close[n], roll_max), roll_max),
                up_down_ratio |-> FDiv(rolling_sum(up, n), rolling_sum(down, n))])

------------------------------------------------------------------------------
(* risk_handler.py: the model cache and lambda_handler *)

\* The invocations one prediction process serves, at most
MaxInvocations == 3

\* The columns compute_features returns, in its order
FeatureCols ==
    <<"volatility_30d", "momentum_30d", "max_drawdown_30d", "atr_30d",
      "avg_volume_30d", "volume_volatility_30d", "beta_30d", "range_ratio",
      "up_down_ratio">>

\* The pickled package {"model", "feature_columns"}; valid is FALSE for bytes
\* pickle.load cannot read.  A model is held as the tuple of its name.
Package(valid, model, feature_columns) ==
    [valid |-> valid, model |-> model, feature_columns |-> feature_columns]

Packages ==
    { Package(TRUE, <<"m1">>, FeatureCols),
      Package(TRUE, <<"m2">>, SubSeq(FeatureCols, 1, 3)),
      Package(FALSE, None, None) }

\* MODEL_CACHE as the module is imported, no model file, no invocation yet
RiskIdle ==
    /\ MODEL_CACHE = [loaded |-> FALSE, model |-> None, feature_columns |-> None]
    /\ model_file = None
    /\ invocations = <<>>

\* Mutant: the holder is never taken as loaded
cache_hit_never(cache) == FALSE

\* if MODEL_CACHE["loaded"]
cache_hit(cache) == cache.loaded

\* load_model_from_s3: what it returns or raises, the steps it took, and
\* MODEL_CACHE and the model file as it leaves them.  download_ok is whether
\* s3.download_file succeeds if it is called.
load_model_from_s3(download_ok) ==
    IF cache_hit(MODEL_CACHE)
    THEN [MODEL_CACHE |-> MODEL_CACHE, model_file |-> model_file,
          ops |-> <<"cache">>, raised |-> FALSE,
          model |-> MODEL_CACHE.model,
          feature_columns |-> MODEL_CACHE.feature_columns]
    ELSE IF model_file = None /\ ~download_ok
    THEN [MODEL_CACHE |-> MODEL_CACHE, model_file |-> model_file,
          ops |-> <<"download_failed">>, raised |-> TRUE,
          model |-> None, feature_columns |-> None]
    ELSE LET download == model_file = None
             file == IF download THEN <<model_object>> ELSE model_file
             pkg == file[1]
             ops == IF download THEN <<"download">> ELSE <<>>
         IN  IF ~pkg.valid
             THEN [MODEL_CACHE |-> MODEL_CACHE, model_file |-> file,
                   ops |-> ops \o <<"load_failed">>, raised |-> TRUE,
                   model |-> None, feature_columns |-> None]
             ELSE [MODEL_CACHE |-> [loaded |-> TRUE, model |-> pkg.model,
                                    feature_columns |-> pkg.feature_columns],
                   model_file |-> file,
                   ops |-> ops \o <<"load">>, raised |-> FALSE,
                   model |-> pkg.model, feature_columns |-> pkg.feature_columns]

\* DataFrame.tail(k)
tail(df, k) == IF Len(df) <= k THEN df ELSE SubSeq(df, Len(df) - k + 1, Len(df))

\* Mutant: one bar fewer is let through
insufficient_below_window(df_recent) == Len(df_recent) < WINDOW - 1

\* if len(df_recent) < 30
insufficient(df_recent) == Len(df_recent) < WINDOW

\* One invocation as the process records it: the rows of the price file,
\* the calls made in order, the feature row given to the estimator, the
\* outcome of load_model_from_s3, and how the invocation ended (statusCode 0:
\* by an exception)
Invocation(rows, ops, X, loaded, raised) ==
    [rows |-> rows, ops |-> ops, X |-> X,
     model |-> loaded.model, feature_columns |-> loaded.feature_columns,
     raised |-> raised, statusCode |-> IF raised THEN 0 ELSE 200]

NotLoaded == [model |-> None, feature_columns |-> None]

------------------------------------------------------------------------------
(* ses_handler.py, ses_handler_new.py: helpers *)

\* pred_table.query(ticker, ScanIndexForward=False, Limit=1): the item with
\* the greatest sort key, then its predicted_volatility
get_latest_vol_for_ticker(ticker) ==
    LET items == {i \in pred_table : i.ticker = ticker}
    IN  IF items = {} THEN None
        ELSE LET first == CHOOSE i \in items :
                              \A j \in items : j = i \/ StrLess(j.date, i.date)
             IN  to_float(first.predicted_volatility)

\* Mutant: an empty total gives 0
portfolio_vol_zero_when_empty(weighted_sum, total_qty) ==
    IF RPos(total_qty) THEN RDiv(weighted_sum, total_qty) ELSE Rat(0, 1)

\* (weighted_sum / total_qty) if total_qty > 0 else None
portfolio_vol_of(weighted_sum, total_qty) ==
    IF RPos(total_qty) THEN RDiv(weighted_sum, total_qty) ELSE None

\* One pass of the loop over holdings, from holding i on, with the running
\* holdings_with_vol, total_qty and weighted_sum
RECURSIVE portfolio_loop(_, _, _, _, _)
portfolio_loop(holdings, i, holdings_with_vol, total_qty, weighted_sum) ==
    IF i > Len(holdings)
    THEN [holdings_with_vol |-> holdings_with_vol,
          portfolio_vol |-> portfolio_vol_of(weighted_sum, total_qty)]
    ELSE LET h == holdings[i]
             ticker == h.ticker
             qty == to_float(h.quantity)
         IN  IF ticker = NoTicker \/ qty = None \/ ~RPos(qty)
             THEN portfolio_loop(holdings, i + 1, holdings_with_vol,
                                 total_qty, weighted_sum)
             ELSE LET vol == get_latest_vol_for_ticker(ticker)
                      row == [ticker |-> ticker, quantity |-> qty, vol |-> vol]
                  IN  IF vol # None
                      THEN portfolio_loop(holdings, i + 1,
                                          Append(holdings_with_vol, row),
                                          RAdd(total_qty, qty),
                                          RAdd(weighted_sum, RMul(qty, vol)))
                      ELSE portfolio_loop(holdings, i + 1,
                                          Append(holdings_with_vol, row),
                                          total_qty, weighted_sum)

compute_portfolio_vol(holdings) ==
    portfolio_loop(holdings, 1, <<>>, Rat(0, 1), Rat(0, 1))

get_vol_tolerance_for_client(client) ==
    IF client.volTolerance # None /\ to_float(client.volTolerance) # None
    THEN to_float(client.volTolerance)
    ELSE Rat(VOL_TOL_DEFAULT, 100)

\* ses_handler.py: to_float(client.get("targetRisk")) or portfolio_vol
target_vol_of(client, portfolio_vol) ==
    LET t == to_float(client.targetRisk)
    IN  IF t = None \/ RZero(t) THEN portfolio_vol ELSE t

\* ses_handler_new.py: target_vol is portfolio_vol only when targetRisk is None
target_vol_of_new(client, portfolio_vol) ==
    LET t == to_float(client.targetRisk)
    IN  IF t = None THEN portfolio_vol ELSE t

lower_band(target_vol, tol) == RMul(target_vol, RSub(Rat(1, 1), tol))
upper_band(target_vol, tol) == RMul(target_vol, RAdd(Rat(1, 1), tol))
\* Mutant: the bounds themselves are outside
within_band_exclusive(lower, portfolio_vol, upper) ==
    ~RLe(portfolio_vol, lower) /\ ~RLe(upper, portfolio_vol)

\* lower <= portfolio_vol <= upper
within_band(lower, portfolio_vol, upper) ==
    RLe(lower, portfolio_vol) /\ RLe(portfolio_vol, upper)

\* The PortfolioRiskAssessment the handler computes for one client
assess(client, portfolio_vol, target_vol) ==
    LET tol == get_vol_tolerance_for_client(client)
        lower == lower_band(target_vol, tol)
        upper == upper_band(target_vol, tol)
    IN  [portfolio_vol |-> portfolio_vol, target_vol |-> target_vol, tol |-> tol,
         lower |-> lower, upper |-> upper,
         within |-> within_band(lower, portfolio_vol, upper)]

------------------------------------------------------------------------------
(* The client directory and the stream events *)

Holding(t, q) == [ticker |-> t, quantity |-> q]

\* The static attributes of the CLIENT_TABLE items
Directory ==
    [c \in Clients |->
        IF c = "c1"
        THEN [holdings |-> <<Holding("A", Rat(2, 1)), Holding("B", Rat(1, 1))>>,
              targetRisk |-> Rat(30, 1), volTolerance |-> None]
        ELSE [holdings |-> <<Holding("B", Rat(1, 1))>>,
              targetRisk |-> None, volTolerance |-> Rat(10, 100)]]

\* client_table.scan(): the order in which the items come back
ScanOrder == <<"c1", "c2">>

Date(y, m, d) == [y |-> y, m |-> m, d |-> d]

PredItem(t, date, v) ==
    [ticker |-> t, date |-> strftime_dmy(date), predicted_volatility |-> v]

\* PredictedVolatility as the notification handlers may find it: a record
\* for A, and one or none for B
PredInits ==
    { a \cup b : a \in {{PredItem("A", Date(2024, 1, 31), Rat(20, 1))}},
                 b \in {{}, {PredItem("B", Date(2024, 1, 31), Rat(40, 1))}} }

\* The records of a DynamoDB stream batch. NewImage is absent on REMOVE and
\* on a keys-only stream.
Image(present, t) == [present |-> present, ticker |-> t]
StreamRecords ==
    { [eventName |-> "INSERT", NewImage |-> Image(TRUE, "A")],
      [eventName |-> "MODIFY", NewImage |-> Image(TRUE, "B")],
      [eventName |-> "REMOVE", NewImage |-> Image(FALSE, NoTicker)],
      [eventName |-> "INSERT", NewImage |-> Image(FALSE, NoTicker)],
      [eventName |-> "MODIFY", NewImage |-> Image(TRUE, NoTicker)] }

RECURSIVE SeqsUpTo(_, _)
SeqsUpTo(S, n) ==
    IF n = 0 THEN {<<>>}
    ELSE LET shorter == SeqsUpTo(S, n - 1)
         IN  shorter \cup {Append(q, x) : q \in shorter, x \in S}

Events == SeqsUpTo(StreamRecords, MaxRecords)

\* The tickers updated in a batch: the loop over event["Records"]
RECURSIVE updated_tickers_of(_)
updated_tickers_of(records) ==
    IF records = <<>> THEN {}
    ELSE LET record == Head(records)
             rest == updated_tickers_of(Tail(records))
         IN  IF record.eventName \notin {"INSERT", "MODIFY"} THEN rest
             ELSE IF ~record.NewImage.present THEN rest
             ELSE IF record.NewImage.ticker # NoTicker
                  THEN rest \cup {record.NewImage.ticker}
                  ELSE rest

\* The tickers named by the INSERT and MODIFY records of a batch: what the
\* batch says, kept beside what the handler made of it
BatchTickers(event) ==
    {t \in Tickers : \E i \in DOMAIN event :
        /\ event[i].eventName \in {"INSERT", "MODIFY"}
        /\ event[i].NewImage.present
        /\ event[i].NewImage.ticker = t}

holding_tickers_of(holdings) == {holdings[i].ticker : i \in DOMAIN holdings}

\* Mutant: every client with holdings counts as affected
affected_any_holding(holdings, updated_tickers) ==
    holding_tickers_of(holdings) # {}

\* "Client affected?"
affected(holdings, updated_tickers) ==
    holding_tickers_of(holdings) \cap updated_tickers # {}

------------------------------------------------------------------------------
(* ses_handler.py: try_mark_email_sent *)

\* Mutant: lastEmailSent <= :threshold
condition_expression_inclusive(item, threshold) ==
    item.lastEmailSent = None \/ item.lastEmailSent[1] <= threshold

\* Mutant: the attribute_not_exists(lastEmailSent) disjunct left out
condition_expression_no_absent(item, threshold) ==
    item.lastEmailSent # None /\ item.lastEmailSent[1] < threshold

\* ConditionExpression: attribute_not_exists(lastEmailSent) OR
\* lastEmailSent < :threshold
condition_expression(item, threshold) ==
    item.lastEmailSent = None \/ item.lastEmailSent[1] < threshold

\* Mutant: the update writes nothing
update_expression_noop(item, now_ts) == item

\* UpdateExpression: SET lastEmailSent = :now
update_expression(item, now_ts) == [item EXCEPT !.lastEmailSent = <<now_ts>>]

------------------------------------------------------------------------------
(* State *)

IdleFrame ==
    [batch_tickers |-> {}, updated_tickers |-> {}, scanned |-> FALSE,
     clients |-> <<>>,
     idx |-> 0, now_ts |-> 0, at_start |-> None, during |-> {}, calls |-> <<>>,
     assessment |-> None]

Init ==
    /\ clock = 0
    /\ client_table = [c \in Clients |->
           [lastEmailSent |-> None, currentVol |-> None, lastUpdated |-> None]]
    /\ pred_table \in PredInits
    /\ tmp_marker = [c \in Clients |-> None]
    /\ pc = [p \in Procs |-> "idle"]
    /\ frame = [p \in Procs |-> IdleFrame]
    /\ trace = [p \in Procs |-> <<>>]
    /\ outbox = {}
    /\ probe = None
    /\ RiskIdle
    /\ model_object = Package(TRUE, <<"m1">>, FeatureCols)

Client(p) == frame[p].clients[frame[p].idx]

\* The calls of try_mark_email_sent in flight for client c
InFlight(c) == {q \in Procs : pc[q] = "update" /\ Client(q) = c}

------------------------------------------------------------------------------
(* ses_handler.py: lambda_handler *)

\* Lines 236-269: the updated tickers, the early return, the scan
Invoke(p, event) ==
    /\ pc[p] = "idle"
    /\ LET updated == updated_tickers_of(event)
       IN  IF updated = {}
           THEN /\ pc' = [pc EXCEPT ![p] = "done"]
                /\ frame' = [frame EXCEPT ![p].batch_tickers = BatchTickers(event)]
           ELSE /\ pc' = [pc EXCEPT ![p] = "loop"]
                /\ frame' = [frame EXCEPT ![p].batch_tickers = BatchTickers(event),
                                          ![p].updated_tickers = updated,
                                          ![p].scanned = TRUE,
                                          ![p].clients = ScanOrder,
                                          ![p].idx = 1]
    /\ UNCHANGED <<clock, client_table, pred_table, tmp_marker, trace, outbox, probe, risk_vars>>

\* Lines 274-285 and 116-117: the next client; an affected one enters
\* try_mark_email_sent, which reads the clock
NextClient(p) ==
    /\ pc[p] = "loop"
    /\ IF frame[p].idx > Len(frame[p].clients)
       THEN /\ pc' = [pc EXCEPT ![p] = "done"]
            /\ UNCHANGED <<frame, trace>>
       ELSE LET c == Client(p)
            IN  IF ~affected(Directory[c].holdings, frame[p].updated_tickers)
                THEN /\ frame' = [frame EXCEPT ![p].idx = @ + 1]
                     /\ UNCHANGED <<pc, trace>>
                ELSE /\ pc' = [pc EXCEPT ![p] = "update"]
                     /\ frame' = [frame EXCEPT
                            ![p].now_ts = clock,
                            ![p].at_start = client_table[c].lastEmailSent,
                            ![p].during = InFlight(c)]
                     /\ trace' = [trace EXCEPT ![p] = Append(@, <<c, "dedup">>)]
    /\ UNCHANGED <<clock, client_table, pred_table, tmp_marker, outbox, probe, risk_vars>>

\* Lines 119-135: the conditional update, applied atomically by the store
TryMark(p) ==
    /\ pc[p] = "update"
    /\ LET c == Client(p)
           item == client_table[c]
           now_ts == frame[p].now_ts
           threshold == now_ts - EMAIL_COOLDOWN_SECONDS
           ret == condition_expression(item, threshold)
           after == IF ret THEN update_expression(item, now_ts) ELSE item
           call == [client |-> c, now_ts |-> now_ts, at_start |-> frame[p].at_start,
                    during |-> frame[p].during, prev |-> item.lastEmailSent,
                    ret |-> ret, post |-> after.lastEmailSent]
       IN  /\ client_table' = [client_table EXCEPT ![c] = after]
           /\ pc' = [pc EXCEPT ![p] = IF ret THEN "compute" ELSE "loop"]
           /\ frame' = [frame EXCEPT ![p].calls = Append(@, call),
                                     ![p].idx = IF ret THEN @ ELSE @ + 1]
    /\ UNCHANGED <<clock, pred_table, tmp_marker, trace, outbox, probe, risk_vars>>

\* Lines 288-305: aggregate, evaluate, send
Compute(p) ==
    /\ pc[p] = "compute"
    /\ LET c == Client(p)
           client == Directory[c]
           agg == compute_portfolio_vol(client.holdings)
           portfolio_vol == agg.portfolio_vol
       IN  IF portfolio_vol = None
           THEN /\ trace' = [trace EXCEPT ![p] = Append(@, <<c, "aggregate">>)]
                /\ UNCHANGED outbox
           ELSE LET a == assess(client, portfolio_vol,
                                target_vol_of(client, portfolio_vol))
                IN  /\ trace' = [trace EXCEPT ![p] =
                                    @ \o << <<c, "aggregate">>, <<c, "evaluate">>,
                                            <<c, "notify">> >>]
                    /\ outbox' = outbox \cup
                          {[via |-> "ses_handler", proc |-> p, client |-> c,
                            marked |-> frame[p].now_ts, at |-> clock,
                            assessment |-> a]}
    /\ pc' = [pc EXCEPT ![p] = "loop"]
    /\ frame' = [frame EXCEPT ![p].idx = @ + 1]
    /\ UNCHANGED <<clock, client_table, pred_table, tmp_marker, probe, risk_vars>>

------------------------------------------------------------------------------
(* ses_handler.py: the store, the lookup and the gateway failing *)

\* A holding for which compute_portfolio_vol queries pred_table
Queried(h) ==
    h.ticker # NoTicker /\ to_float(h.quantity) # None /\ RPos(to_float(h.quantity))

\* Lines 130-135: update_item raises a ClientError whose code is not
\* ConditionalCheckFailedException; try_mark_email_sent raises it again and
\* nothing in lambda_handler catches it
TryMarkRaise(p) ==
    /\ pc[p] = "update"
    /\ pc' = [pc EXCEPT ![p] = "raised"]
    /\ UNCHANGED <<clock, client_table, pred_table, tmp_marker, frame, trace, outbox, probe, risk_vars>>

\* Lines 71-75 under line 288: pred_table.query raises inside
\* get_latest_vol_for_ticker; nothing up to lambda_handler catches it
LookupRaise(p) ==
    /\ pc[p] = "compute"
    /\ \E i \in DOMAIN Directory[Client(p)].holdings :
           Queried(Directory[Client(p)].holdings[i])
    /\ pc' = [pc EXCEPT ![p] = "raised"]
    /\ trace' = [trace EXCEPT ![p] = Append(@, <<Client(p), "aggregate">>)]
    /\ UNCHANGED <<clock, client_table, pred_table, tmp_marker, frame, outbox, probe, risk_vars>>

\* Lines 288-305 with lines 230-231: ses.send_email raises a ClientError,
\* send_email prints it and returns, the loop goes on
ComputeSesError(p) ==
    /\ pc[p] = "compute"
    /\ compute_portfolio_vol(Directory[Client(p)].holdings).portfolio_vol # None
    /\ trace' = [trace EXCEPT ![p] =
                    @ \o << <<Client(p), "aggregate">>, <<Client(p), "evaluate">>,
                            <<Client(p), "notify_failed">> >>]
    /\ pc' = [pc EXCEPT ![p] = "loop"]
    /\ frame' = [frame EXCEPT ![p].idx = @ + 1]
    /\ UNCHANGED <<clock, client_table, pred_table, tmp_marker, outbox, probe, risk_vars>>

------------------------------------------------------------------------------
(* ses_handler_new.py: lambda_handler *)

\* Lines 281-326: the updated tickers, the early return, the scan, now_ts
InvokeNew(p, event) ==
    /\ pc[p] = "idle"
    /\ LET updated == updated_tickers_of(event)
       IN  IF updated = {}
           THEN /\ pc' = [pc EXCEPT ![p] = "done"]
                /\ frame' = [frame EXCEPT ![p].batch_tickers = BatchTickers(event)]
           ELSE /\ pc' = [pc EXCEPT ![p] = "loop_new"]
                /\ frame' = [frame EXCEPT ![p].batch_tickers = BatchTickers(event),
                                          ![p].updated_tickers = updated,
                                          ![p].scanned = TRUE,
                                          ![p].clients = ScanOrder,
                                          ![p].idx = 1,
                                          ![p].now_ts = clock]
    /\ UNCHANGED <<clock, client_table, pred_table, tmp_marker, trace, outbox, probe, risk_vars>>

\* Lines 328-350: the next client; an affected one is aggregated and, with a
\* defined portfolio volatility, evaluated
NextClientNew(p) ==
    /\ pc[p] = "loop_new"
    /\ IF frame[p].idx > Len(frame[p].clients)
       THEN /\ pc' = [pc EXCEPT ![p] = "done"]
            /\ UNCHANGED <<frame, trace>>
       ELSE LET c == Client(p)
                client == Directory[c]
                portfolio_vol == compute_portfolio_vol(client.holdings).portfolio_vol
            IN  IF ~affected(client.holdings, frame[p].updated_tickers)
                THEN /\ frame' = [frame EXCEPT ![p].idx = @ + 1]
                     /\ UNCHANGED <<pc, trace>>
                ELSE IF portfolio_vol = None
                THEN /\ frame' = [frame EXCEPT ![p].idx = @ + 1]
                     /\ trace' = [trace EXCEPT ![p] = Append(@, <<c, "aggregate">>)]
                     /\ UNCHANGED pc
                ELSE /\ pc' = [pc EXCEPT ![p] = "store_new"]
                     /\ frame' = [frame EXCEPT ![p].assessment =
                            assess(client, portfolio_vol,
                                   target_vol_of_new(client, portfolio_vol))]
                     /\ trace' = [trace EXCEPT ![p] =
                            @ \o << <<c, "aggregate">>, <<c, "evaluate">> >>]
    /\ UNCHANGED <<clock, client_table, pred_table, tmp_marker, outbox, probe, risk_vars>>

\* Lines 353-364: SET currentVol = :cv, lastUpdated = :ts
StoreNew(p) ==
    /\ pc[p] = "store_new"
    /\ client_table' = [client_table EXCEPT
           ![Client(p)].currentVol = frame[p].assessment.portfolio_vol,
           ![Client(p)].lastUpdated = <<frame[p].now_ts>>]
    /\ pc' = [pc EXCEPT ![p] = "dedup_new"]
    /\ UNCHANGED <<clock, pred_table, tmp_marker, frame, trace, outbox, probe, risk_vars>>

\* Mutant: a marker exactly one cooldown old still counts as fresh
marker_is_fresh_inclusive(mtime, now) ==
    mtime # None /\ now - mtime[1] <= EMAIL_COOLDOWN_SECONDS

\* should_send_email_for_client, lines 263-267: the marker exists and is
\* younger than the cooldown
marker_is_fresh(mtime, now) ==
    mtime # None /\ now - mtime[1] < EMAIL_COOLDOWN_SECONDS

\* What a call of should_send_email_for_client saw and returned; error is
\* TRUE for a call that ended in its except clause
MarkerCallOf(c, ret, error) ==
    [client |-> c, now_ts |-> clock, prev |-> tmp_marker[c], ret |-> ret,
     error |-> error]

MarkerCall(c, ret) == MarkerCallOf(c, ret, FALSE)

\* should_send_email_for_client, lines 257-267: the check of the marker file
DedupNew(p) ==
    /\ pc[p] = "dedup_new"
    /\ LET c == Client(p)
       IN  /\ trace' = [trace EXCEPT ![p] = Append(@, <<c, "dedup">>)]
           /\ IF marker_is_fresh(tmp_marker[c], clock)
              THEN /\ pc' = [pc EXCEPT ![p] = "loop_new"]
                   /\ frame' = [frame EXCEPT ![p].idx = @ + 1,
                          ![p].calls = Append(@, MarkerCall(c, FALSE))]
              ELSE /\ pc' = [pc EXCEPT ![p] = "mark_new"]
                   /\ frame' = [frame EXCEPT
                          ![p].calls = Append(@, MarkerCall(c, TRUE))]
    /\ UNCHANGED <<clock, client_table, pred_table, tmp_marker, outbox, probe, risk_vars>>

\* should_send_email_for_client, lines 270-276, then lines 372-384: the
\* marker is written, and the email is built and sent
MarkAndSendNew(p) ==
    /\ pc[p] = "mark_new"
    /\ LET c == Client(p)
       IN  /\ tmp_marker' = [tmp_marker EXCEPT ![c] = <<clock>>]
           /\ trace' = [trace EXCEPT ![p] = Append(@, <<c, "notify">>)]
           /\ outbox' = outbox \cup
                 {[via |-> "ses_handler_new", proc |-> p, client |-> c,
                   marked |-> clock, at |-> clock,
                   assessment |-> frame[p].assessment]}
    /\ pc' = [pc EXCEPT ![p] = "loop_new"]
    /\ frame' = [frame EXCEPT ![p].idx = @ + 1]
    /\ UNCHANGED <<clock, client_table, pred_table, probe, risk_vars>>

\* should_send_email_for_client, lines 262-276, then lines 372-384: a file
\* operation raises, the except clause prints the error, the call returns
\* True with the marker as it was, and the email is built and sent
DedupFailOpenNew(p) ==
    /\ pc[p] = "dedup_new"
    /\ LET c == Client(p)
       IN  /\ trace' = [trace EXCEPT ![p] = @ \o << <<c, "dedup">>, <<c, "notify">> >>]
           /\ frame' = [frame EXCEPT ![p].idx = @ + 1,
                  ![p].calls = Append(@, MarkerCallOf(c, TRUE, TRUE))]
           /\ outbox' = outbox \cup
                 {[via |-> "ses_handler_new", proc |-> p, client |-> c,
                   marked |-> clock, at |-> clock,
                   assessment |-> frame[p].assessment]}
    /\ pc' = [pc EXCEPT ![p] = "loop_new"]
    /\ UNCHANGED <<clock, client_table, pred_table, tmp_marker, probe, risk_vars>>

\* time.time() advances
Tick ==
    /\ clock < MaxClock
    /\ clock' = clock + 1
    /\ UNCHANGED <<client_table, pred_table, tmp_marker, pc, frame, trace, outbox, probe, risk_vars>>

Next ==
    \/ \E p \in Procs, event \in Events : Invoke(p, event)
    \/ \E p \in Procs : NextClient(p)
    \/ \E p \in Procs : TryMark(p)
    \/ \E p \in Procs : Compute(p)
    \/ Tick

Spec == Init /\ [][Next]_vars

\* Invocations of ses_handler_new.lambda_handler sharing one /tmp
NextNew ==
    \/ \E p \in Procs, event \in Events : InvokeNew(p, event)
    \/ \E p \in Procs : NextClientNew(p)
    \/ \E p \in Procs : StoreNew(p)
    \/ \E p \in Procs : DedupNew(p)
    \/ \E p \in Procs : MarkAndSendNew(p)
    \/ \E p \in Procs : DedupFailOpenNew(p)
    \/ Tick

\* PredictedVolatility with a record for A alone: the client holding A has
\* a portfolio volatility and comes to the dedup, the client holding only B
\* is left out at the aggregation
InitNew ==
    /\ Init
    /\ pred_table = {PredItem("A", Date(2024, 1, 31), Rat(20, 1))}

SpecNew == InitNew /\ [][NextNew]_vars

\* Both notification handlers deployed on the same tables, the clock at rest
NextFanout ==
    \/ \E p \in Procs, event \in Events : Invoke(p, event)
    \/ \E p \in Procs : NextClient(p)
    \/ \E p \in Procs : TryMark(p)
    \/ \E p \in Procs : Compute(p)
    \/ \E p \in Procs, event \in Events : InvokeNew(p, event)
    \/ \E p \in Procs : NextClientNew(p)
    \/ \E p \in Procs : StoreNew(p)
    \/ \E p \in Procs : DedupNew(p)
    \/ \E p \in Procs : MarkAndSendNew(p)

SpecFanout == Init /\ [][NextFanout]_vars

\* ses_handler.lambda_handler with the store, the lookup and the gateway
\* able to fail, the clock at rest
NextFault ==
    \/ \E p \in Procs, event \in Events : Invoke(p, event)
    \/ \E p \in Procs : NextClient(p)
    \/ \E p \in Procs : TryMark(p)
    \/ \E p \in Procs : Compute(p)
    \/ \E p \in Procs : TryMarkRaise(p)
    \/ \E p \in Procs : LookupRaise(p)
    \/ \E p \in Procs : ComputeSesError(p)

SpecFault == Init /\ [][NextFault]_vars

------------------------------------------------------------------------------
(* compute_portfolio_vol over bounded holding lists *)

Idle ==
    /\ clock = 0
    /\ client_table = [c \in Clients |->
           [lastEmailSent |-> None, currentVol |-> None, lastUpdated |-> None]]
    /\ tmp_marker = [c \in Clients |-> None]
    /\ pc = [p \in Procs |-> "idle"]
    /\ frame = [p \in Procs |-> IdleFrame]
    /\ trace = [p \in Procs |-> <<>>]
    /\ outbox = {}
    /\ RiskIdle
    /\ model_object = Package(TRUE, <<"m1">>, FeatureCols)

AggTickers == {"A", "B", NoTicker}
AggQuantities == {None, Bad, Rat(0, 1), Rat(-1, 1), Rat(10, 1), Rat(30, 1)}
AggHoldings == {Holding(t, q) : t \in AggTickers, q \in AggQuantities}

\* Each ticker with one record or none
AggPredTables ==
    { a \cup b : a \in {{}, {PredItem("A", Date(2024, 1, 31), Rat(20, 1))}},
                 b \in {{}, {PredItem("B", Date(2024, 1, 31), Rat(40, 1))}} }

InitAgg ==
    /\ Idle
    /\ pred_table \in AggPredTables
    /\ probe \in {[fn |-> "compute_portfolio_vol", holdings |-> h, done |-> FALSE,
                    result |-> None] : h \in SeqsUpTo(AggHoldings, MaxHoldings)}

Aggregate ==
    /\ ~probe.done
    /\ probe' = [probe EXCEPT !.done = TRUE,
                              !.result = compute_portfolio_vol(probe.holdings)]
    /\ UNCHANGED <<clock, client_table, pred_table, tmp_marker, pc, frame, trace, outbox, risk_vars>>

SpecAgg == InitAgg /\ [][Aggregate]_vars

------------------------------------------------------------------------------
(* The prediction handler's writes and the latest-volatility lookup *)

PredDates == {Date(2023, 12, 15), Date(2024, 1, 31), Date(2024, 2, 1)}
PredVols == {Rat(20, 1), Rat(40, 1)}

InitVol ==
    /\ Idle
    /\ pred_table = {}
    /\ probe = None

\* risk_handler.py lines 209-219: the item and table.put_item
PutPrediction(ticker, latest_date, predicted_vol) ==
    /\ pred_table' = put_item(pred_table, PredItem(ticker, latest_date, predicted_vol))
    /\ UNCHANGED <<clock, client_table, tmp_marker, pc, frame, trace, outbox, probe, risk_vars>>

NextVol ==
    \E t \in Tickers, d \in PredDates, v \in PredVols : PutPrediction(t, d, v)

SpecVol == InitVol /\ [][NextVol]_vars

------------------------------------------------------------------------------
(* The risk band over bounded client records *)

BandTargets == {None, Bad, Rat(0, 1), Rat(3, 10), Rat(1, 2)}
BandTolerances == {None, Bad, Rat(0, 1), Rat(1, 10), Rat(-1, 10), Rat(3, 2)}
BandVols == {Rat(0, 1), Rat(26, 100), Rat(27, 100), Rat(33, 100), Rat(34, 100)}

InitBand ==
    /\ Idle
    /\ pred_table = {}
    /\ probe \in {[fn |-> "risk_band", handler |-> h,
                    client |-> [targetRisk |-> t, volTolerance |-> v],
                    portfolio_vol |-> pv, done |-> FALSE, result |-> None] :
                     h \in {"ses_handler", "ses_handler_new"},
                     t \in BandTargets, v \in BandTolerances, pv \in BandVols}

\* ses_handler.py lines 292-296, ses_handler_new.py lines 342-350
Evaluate ==
    /\ ~probe.done
    /\ LET target_vol == IF probe.handler = "ses_handler"
                         THEN target_vol_of(probe.client, probe.portfolio_vol)
                         ELSE target_vol_of_new(probe.client, probe.portfolio_vol)
       IN  probe' = [probe EXCEPT
                        !.done = TRUE,
                        !.result = assess(probe.client, probe.portfolio_vol, target_vol)]
    /\ UNCHANGED <<clock, client_table, pred_table, tmp_marker, pc, frame, trace, outbox, risk_vars>>

SpecBand == InitBand /\ [][Evaluate]_vars

------------------------------------------------------------------------------
(* compute_features over bounded price series *)

PriceBases == {3, 5}

\* n closes: the base price, then ups rises of 1, downs falls of 1 and the
\* last price held, the moves made at the start of the series or at its end
Bars(n, base, ups, downs, late) ==
    LET start == IF late THEN n - ups - downs ELSE 1
    IN  [i \in 1..n |->
            IF i <= start THEN base
            ELSE IF i <= start + ups THEN base + (i - start)
            ELSE IF i <= start + ups + downs THEN base + ups - (i - start - ups)
            ELSE base + ups - downs]

\* The close columns of price files: every price positive
PriceSeries ==
    {c \in {Bars(n, base, ups, downs, late) :
                n \in WINDOW..(WINDOW + MaxExtraBars), base \in PriceBases,
                ups \in 0..MaxMoves, downs \in 0..MaxMoves, late \in BOOLEAN} :
        \A i \in DOMAIN c : c[i] >= 1}

InitFeat ==
    /\ Idle
    /\ pred_table = {}
    /\ probe \in {[fn |-> "compute_features", close |-> c, done |-> FALSE,
                    result |-> None] : c \in PriceSeries}

ComputeFeatures ==
    /\ ~probe.done
    /\ probe' = [probe EXCEPT !.done = TRUE,
                              !.result = compute_features(probe.close)]
    /\ UNCHANGED <<clock, client_table, pred_table, tmp_marker, pc, frame, trace, outbox, risk_vars>>

SpecFeat == InitFeat /\ [][ComputeFeatures]_vars

------------------------------------------------------------------------------
(* risk_handler.py: the invocations of one prediction process *)

\* The lengths of the price files that trigger it
FileLengths == {0, WINDOW - 1, WINDOW, WINDOW + 1}

\* The close columns of the price files: flat series
RiskFiles == {Bars(n, 3, 0, 0, TRUE) : n \in FileLengths}

\* An S3 event as lambda_handler reads it: whether the key is
\* market-data/stocks/<ticker>/..., the ticker, the file and its last date
RiskEvent(key_ok, ticker, df_stock) ==
    [key_ok |-> key_ok, ticker |-> ticker, df_stock |-> df_stock,
     latest_date |-> Date(2024, 2, 1)]

\* Price files of the tickers, and one object under another prefix
RiskEvents ==
    {RiskEvent(TRUE, t, f) : t \in Tickers, f \in RiskFiles}
        \cup {RiskEvent(FALSE, "A", Bars(WINDOW, 3, 0, 0, TRUE))}

InitRisk ==
    /\ clock = 0
    /\ client_table = [c \in Clients |->
           [lastEmailSent |-> None, currentVol |-> None, lastUpdated |-> None]]
    /\ tmp_marker = [c \in Clients |-> None]
    /\ pc = [p \in Procs |-> "idle"]
    /\ frame = [p \in Procs |-> IdleFrame]
    /\ trace = [p \in Procs |-> <<>>]
    /\ outbox = {}
    /\ pred_table = {}
    /\ probe = None
    /\ RiskIdle
    /\ model_object \in Packages

\* Lines 164-221: one invocation, from the event to its return or exception.
\* predicted_vol is what model.predict gives.
RiskInvoke(event, download_ok, predicted_vol) ==
    /\ Len(invocations) < MaxInvocations
    /\ LET rows == Len(event.df_stock)
           df_recent == tail(event.df_stock, WINDOW)
           X == compute_features(df_recent)
           loaded == load_model_from_s3(download_ok)
           called == <<"get_object", "get_latest_sp500_csv", "compute_features">>
                         \o loaded.ops
       IN  IF ~event.key_ok
           THEN /\ invocations' = Append(invocations,
                       Invocation(rows, <<>>, None, NotLoaded, FALSE))
                /\ UNCHANGED <<MODEL_CACHE, model_file, pred_table>>
           ELSE IF insufficient(df_recent)
           THEN /\ invocations' = Append(invocations,
                       Invocation(rows, <<"get_object">>, None, NotLoaded, FALSE))
                /\ UNCHANGED <<MODEL_CACHE, model_file, pred_table>>
           ELSE IF loaded.raised
           THEN /\ invocations' = Append(invocations,
                       Invocation(rows, called, <<X>>, loaded, TRUE))
                /\ MODEL_CACHE' = loaded.MODEL_CACHE
                /\ model_file' = loaded.model_file
                /\ UNCHANGED pred_table
           ELSE /\ invocations' = Append(invocations,
                       Invocation(rows, called \o <<"predict", "put_item">>,
                                  <<X>>, loaded, FALSE))
                /\ MODEL_CACHE' = loaded.MODEL_CACHE
                /\ model_file' = loaded.model_file
                /\ pred_table' = put_item(pred_table,
                       PredItem(event.ticker, event.latest_date, predicted_vol))
    /\ UNCHANGED <<clock, client_table, tmp_marker, pc, frame, trace, outbox, probe,
                   model_object>>

\* Another package is uploaded to s3://MODEL_BUCKET/MODEL_KEY
UploadModel(pkg) ==
    /\ pkg # model_object
    /\ model_object' = pkg
    /\ UNCHANGED <<clock, client_table, pred_table, tmp_marker, pc, frame, trace,
                   outbox, probe, MODEL_CACHE, model_file, invocations>>

NextRisk ==
    \/ \E event \in RiskEvents, download_ok \in BOOLEAN, predicted_vol \in PredVols :
           RiskInvoke(event, download_ok, predicted_vol)
    \/ \E pkg \in Packages : UploadModel(pkg)

SpecRisk == InitRisk /\ [][NextRisk]_vars

------------------------------------------------------------------------------
(* Properties of the dedup controller and the fan-out *)

\* The completed calls of try_mark_email_sent, each with its invocation
MarkCalls ==
    UNION {{[proc |-> p, call |-> frame[p].calls[i]] : i \in DOMAIN frame[p].calls} :
           p \in Procs}

\* The notifications ses_handler.lambda_handler handed to the gateway
Dispatched == {e \in outbox : e.via = "ses_handler"}

Dist(a, b) == IF a >= b THEN a - b ELSE b - a

Raced(k1, k2) ==
    /\ k1.proc # k2.proc
    /\ k1.call.client = k2.call.client
    /\ k1.proc \in k2.call.during
    /\ k2.call.at_start = None

C3_TryMarkContract ==
    \A k \in MarkCalls :
        LET expired == \/ k.call.prev = None
                       \/ k.call.now_ts - k.call.prev[1] > EMAIL_COOLDOWN_SECONDS
        IN  /\ k.call.ret = expired
            /\ k.call.ret => k.call.post = <<k.call.now_ts>>
            /\ ~k.call.ret => k.call.post = k.call.prev

\* A first grant, a grant over an expired record and a refusal, all recorded
C3_Witness ==
    /\ \E k \in MarkCalls : k.call.ret /\ k.call.prev = None
    /\ \E k \in MarkCalls : k.call.ret /\ k.call.prev # None
    /\ \E k \in MarkCalls : ~k.call.ret /\ k.call.post # None

\* A call made after the grant it meets was stored, with no other call for
\* the client in flight when it began
Sequential(k) ==
    /\ k.call.prev # None
    /\ k.call.at_start = k.call.prev
    /\ k.call.during = {}

\* C4 as stated: after a grant at time t, a sequential call made before the
\* cooldown has elapsed since t returns false, and one made once the
\* cooldown has elapsed (now - t >= cooldown) returns true.
C4_FalseBeforeTrueOnceElapsed ==
    \A k \in MarkCalls :
        Sequential(k) =>
            LET elapsed == k.call.now_ts - k.call.prev[1]
            IN  /\ elapsed < EMAIL_COOLDOWN_SECONDS => ~k.call.ret
                /\ elapsed >= EMAIL_COOLDOWN_SECONDS => k.call.ret

\* C4 as amended: after a grant at time t, a sequential call made while
\* now - t <= cooldown returns false, and one made when now - t > cooldown
\* returns true.
C4_FalseUntilTrueAfterElapsed ==
    \A k \in MarkCalls :
        Sequential(k) =>
            LET elapsed == k.call.now_ts - k.call.prev[1]
            IN  /\ elapsed <= EMAIL_COOLDOWN_SECONDS => ~k.call.ret
                /\ elapsed > EMAIL_COOLDOWN_SECONDS => k.call.ret

\* Sequential calls after a grant: one refused exactly at the cooldown, one
\* granted past it
C4_Witness ==
    /\ \E k \in MarkCalls :
           /\ Sequential(k) /\ ~k.call.ret
           /\ k.call.now_ts - k.call.prev[1] = EMAIL_COOLDOWN_SECONDS
    /\ \E k \in MarkCalls :
           /\ Sequential(k) /\ k.call.ret
           /\ k.call.now_ts - k.call.prev[1] = EMAIL_COOLDOWN_SECONDS + 1

\* The component calls an invocation made for a client, in order
RECURSIVE OpsOf(_, _)
OpsOf(t, c) ==
    IF t = <<>> THEN <<>>
    ELSE IF Head(t)[1] = c THEN <<Head(t)[2]>> \o OpsOf(Tail(t), c)
    ELSE OpsOf(Tail(t), c)

CallsFor(p, c) == OpsOf(trace[p], c)

IsPrefix(a, b) == Len(a) <= Len(b) /\ SubSeq(b, 1, Len(a)) = a

\* No holding of the client has a stored volatility record
NoVolRecord(c) ==
    \A i \in DOMAIN Directory[c].holdings :
        \A item \in pred_table : item.ticker # Directory[c].holdings[i].ticker

\* C5: each client passes through Aggregator, Risk Band Evaluator, Dedup
\* Controller and notification in that order, and a client none of whose
\* holdings has a volatility record never reaches the Dedup Controller: no
\* try_acquire, lastEmailSent unchanged, no notification.
C5_AggregateEvaluateDedupNotify ==
    /\ \A p \in Procs, c \in Clients :
           IsPrefix(CallsFor(p, c), <<"aggregate", "evaluate", "dedup", "notify">>)
    /\ \A c \in Clients :
           NoVolRecord(c) =>
               /\ \A p \in Procs : "dedup" \notin
                      {CallsFor(p, c)[i] : i \in DOMAIN CallsFor(p, c)}
               /\ client_table[c].lastEmailSent = None
               /\ \A e \in outbox : e.client # c

\* The tickers of a client's holdings miss the batch
Untouched(p, c) ==
    \A i \in DOMAIN Directory[c].holdings :
        Directory[c].holdings[i].ticker \notin frame[p].batch_tickers

\* C6: an invocation makes no volatility lookup, band evaluation, dedup
\* acquire or email for a client none of whose holdings' tickers is in its
\* batch, and the client's record is changed only by invocations whose batch
\* names one of its tickers; an invocation whose batch has no INSERT or
\* MODIFY record with a ticker scans and evaluates no client.
C6_UnaffectedClientNeverEvaluated ==
    /\ \A p \in Procs, c \in Clients :
           Untouched(p, c) =>
               /\ CallsFor(p, c) = <<>>
               /\ \A i \in DOMAIN frame[p].calls : frame[p].calls[i].client # c
               /\ \A e \in outbox : ~(e.proc = p /\ e.client = c)
    /\ \A c \in Clients :
           (\A p \in Procs : Untouched(p, c)) =>
               /\ client_table[c] = [lastEmailSent |-> None, currentVol |-> None,
                                     lastUpdated |-> None]
               /\ tmp_marker[c] = None
    /\ \A p \in Procs :
           (pc[p] # "idle" /\ frame[p].batch_tickers = {}) =>
               /\ pc[p] = "done" /\ ~frame[p].scanned
               /\ frame[p].clients = <<>> /\ trace[p] = <<>>

\* One invocation ran to its end over a batch that misses a client's
\* holdings and notified another client; another returned on a batch
\* without tickers
C6_Witness ==
    \E p, q \in Procs :
        /\ pc[p] = "done" /\ frame[p].scanned
        /\ \E c \in Clients : Untouched(p, c)
        /\ \E e \in outbox : e.proc = p
        /\ pc[q] = "done" /\ frame[q].batch_tickers = {}

------------------------------------------------------------------------------
(* Properties of the aggregator, the lookup and the band *)

Numeric(x) == x # None /\ x # Bad

\* The holdings that count: a ticker, a positive quantity, a stored record
Qualifying(holdings) ==
    {i \in DOMAIN holdings :
        /\ holdings[i].ticker # NoTicker
        /\ Numeric(holdings[i].quantity)
        /\ holdings[i].quantity[1] > 0
        /\ \E item \in pred_table : item.ticker = holdings[i].ticker}

StoredVol(t) == (CHOOSE item \in pred_table : item.ticker = t).predicted_volatility

\* The sum over the holdings Q of quantity (weighted = FALSE) or of
\* quantity x volatility (weighted = TRUE)
RECURSIVE SumOver(_, _, _)
SumOver(holdings, Q, weighted) ==
    IF Q = {} THEN Rat(0, 1)
    ELSE LET i == CHOOSE j \in Q : TRUE
             term == IF weighted
                     THEN RMul(holdings[i].quantity, StoredVol(holdings[i].ticker))
                     ELSE holdings[i].quantity
         IN  RAdd(term, SumOver(holdings, Q \ {i}, weighted))

\* C7: compute_portfolio_vol returns the sum of quantity x volatility over
\* the sum of quantity, both over exactly the holdings with a ticker, a
\* positive quantity and a stored record, and None (not 0) when there is
\* no such holding.
C7_WeightedAverageOverRecorded ==
    probe.done =>
        LET Q == Qualifying(probe.holdings)
            pv == probe.result.portfolio_vol
        IN  IF Q = {} THEN pv = None
            ELSE /\ pv # None
                 /\ pv[1] * SumOver(probe.holdings, Q, FALSE)[1]
                        * SumOver(probe.holdings, Q, TRUE)[2]
                    = SumOver(probe.holdings, Q, TRUE)[1] * pv[2]
                        * SumOver(probe.holdings, Q, FALSE)[2]

\* The worked example: (10 x 20 + 30 x 40) / 40 = 35
C7_Witness ==
    /\ probe.done
    /\ probe.holdings = <<Holding("A", Rat(10, 1)), Holding("B", Rat(30, 1))>>
    /\ Cardinality(Qualifying(probe.holdings)) = 2
    /\ REq(probe.result.portfolio_vol, Rat(35, 1))

\* The calendar date a stored date key names, as yyyymmdd
Ordinal(key) ==
    LET n(i) == key[i] - 48
    IN  (n(7) * 1000 + n(8) * 100 + n(9) * 10 + n(10)) * 10000
        + (n(4) * 10 + n(5)) * 100 + n(1) * 10 + n(2)

\* C8: get_latest_vol_for_ticker returns the predicted volatility of the
\* record with the chronologically most recent date among the records the
\* prediction handler stored for the ticker.
C8_LatestIsMostRecentDate ==
    \A t \in Tickers :
        LET items == {i \in pred_table : i.ticker = t}
        IN  items # {} =>
                \E newest \in items :
                    /\ \A j \in items : Ordinal(j.date) <= Ordinal(newest.date)
                    /\ get_latest_vol_for_ticker(t) = newest.predicted_volatility

\* C9: the band the handler computes has lower_bound <= upper_bound for
\* every tolerance override, default tolerance and target it accepts.
C9_LowerAtMostUpper ==
    probe.done => RLe(probe.result.lower, probe.result.upper)

\* C10: the band is [target x (1 - tol), target x (1 + tol)] with tol the
\* client's own tolerance when it has one and the default otherwise, and
\* within-band holds exactly when lower <= portfolio_vol <= upper.
C10_BandAndInclusiveClassification ==
    probe.done =>
        LET r == probe.result
            tol == IF Numeric(probe.client.volTolerance)
                   THEN probe.client.volTolerance ELSE <<VOL_TOL_DEFAULT, 100>>
            t == r.target_vol
            pv == probe.portfolio_vol
        IN  /\ r.tol = tol
            /\ r.lower[1] * (t[2] * tol[2]) = t[1] * (tol[2] - tol[1]) * r.lower[2]
            /\ r.upper[1] * (t[2] * tol[2]) = t[1] * (tol[2] + tol[1]) * r.upper[2]
            /\ r.within <=> /\ r.lower[1] * pv[2] <= pv[1] * r.lower[2]
                            /\ pv[1] * r.upper[2] <= r.upper[1] * pv[2]

\* target 0.30, tolerance 0.10: 0.27 is within, on the lower bound
C10_Witness ==
    /\ probe.done
    /\ probe.handler = "ses_handler"
    /\ probe.client = [targetRisk |-> Rat(3, 10), volTolerance |-> Rat(1, 10)]
    /\ probe.portfolio_vol = Rat(27, 100)
    /\ REq(probe.result.lower, Rat(27, 100))
    /\ REq(probe.result.upper, Rat(33, 100))
    /\ probe.result.within

------------------------------------------------------------------------------
(* Properties of the fan-out under failures *)

\* The clients of the scan whose holdings meet the updated tickers
AffectedClients(p) ==
    {frame[p].clients[i] : i \in {j \in DOMAIN frame[p].clients :
        affected(Directory[frame[p].clients[j]].holdings, frame[p].updated_tickers)}}

\* C11: a failure while one client is processed (a failed volatility lookup,
\* a store error of try_mark_email_sent other than a lost conditional check,
\* a delivery error) never aborts the batch: an invocation that has ended,
\* by its return or by an exception, has processed every affected client of
\* its scan.
C11_FailureNeverAbortsBatch ==
    \A p \in Procs :
        pc[p] \in {"done", "raised"} =>
            \A c \in AffectedClients(p) : CallsFor(p, c) # <<>>

------------------------------------------------------------------------------
(* Properties of the feature row *)

\* The bars of the trailing WINDOW rows whose close is above (sign = 1) or
\* below (sign = -1) the close of the bar before
Bars30(close, sign) ==
    {i \in DOMAIN close :
        /\ i > Len(close) - WINDOW /\ i > 1
        /\ IF sign = 1 THEN close[i] > close[i - 1] ELSE close[i] < close[i - 1]}

\* C14: up_down_ratio of the feature row is the default 1 when the trailing
\* 30-bar window has no negative-return bar, and otherwise the count of
\* positive-return bars over the count of negative-return bars of the window.
C14_UpDownRatioDefaultsToOne ==
    probe.done =>
        LET pos == Cardinality(Bars30(probe.close, 1))
            neg == Cardinality(Bars30(probe.close, -1))
            r == probe.result.up_down_ratio
        IN  IF neg = 0 THEN r = <<1, 1>>
            ELSE r[2] # 0 /\ r[1] * neg = pos * r[2]

\* C15: for a flat price series of at least 30 bars, the exactly-30-bar
\* series included, the feature row has volatility_30d = 0, momentum_30d = 0
\* and max_drawdown_30d = 0, all three defined.
C15_FlatSeriesGivesZeros ==
    (probe.done /\ \A i \in DOMAIN probe.close : probe.close[i] = probe.close[1]) =>
        /\ FZero(probe.result.volatility_30d)
        /\ FZero(probe.result.momentum_30d)
        /\ FZero(probe.result.max_drawdown_30d)

------------------------------------------------------------------------------
(* Properties of the prediction handler *)

Has(ops, op) == \E i \in DOMAIN ops : ops[i] = op

LoadCalls == {i \in DOMAIN invocations : Has(invocations[i].ops, "compute_features")}

\* C13: within one process the artifact is fetched at most once: after a
\* call of load_model_from_s3 that succeeded, every later call takes the
\* same model and feature columns from the holder, with no fetch and no
\* read of the file, and a fetch is made only before any call has succeeded.
C13_ModelFetchedAtMostOnce ==
    /\ Cardinality({i \in LoadCalls : Has(invocations[i].ops, "download")}) <= 1
    /\ \A i, j \in LoadCalls :
           (i < j /\ ~invocations[i].raised) =>
               /\ Has(invocations[j].ops, "cache")
               /\ ~Has(invocations[j].ops, "download")
               /\ ~Has(invocations[j].ops, "download_failed")
               /\ ~Has(invocations[j].ops, "load")
               /\ ~invocations[j].raised
               /\ invocations[j].model = invocations[i].model
               /\ invocations[j].feature_columns = invocations[i].feature_columns

\* A failed fetch, then the fetch and load, then a call served from the
\* holder after another package was uploaded
C13_Witness ==
    /\ Len(invocations) = 3
    /\ Has(invocations[1].ops, "download_failed")
    /\ Has(invocations[2].ops, "download") /\ Has(invocations[2].ops, "load")
    /\ Has(invocations[3].ops, "cache")
    /\ model_object.valid /\ model_object.model # invocations[3].model

------------------------------------------------------------------------------
(* Properties of the local-marker dedup *)

\* The notifications ses_handler_new.lambda_handler sent, one for each call
\* of should_send_email_for_client that returned True, at the time it returned
DispatchedNew == {e \in outbox : e.via = "ses_handler_new"}

\* The completed calls of should_send_email_for_client
MarkerCalls ==
    UNION {{frame[p].calls[i] : i \in DOMAIN frame[p].calls} : p \in Procs}

\* The notification followed a call that ended in its except clause
FailedOpen(e) ==
    \E i \in DOMAIN frame[e.proc].calls :
        frame[e.proc].calls[i].client = e.client /\ frame[e.proc].calls[i].error

\* A call of should_send_email_for_client returns False and the marker
\* stays as it was
FalseLeavesMarker ==
    \A p \in Procs :
        (pc[p] = "dedup_new" /\ pc'[p] = "loop_new"
         /\ ~frame'[p].calls[Len(frame'[p].calls)].ret)
            => tmp_marker' = tmp_marker

------------------------------------------------------------------------------
(* Properties of the cooldown record *)

\* C17: whenever try_mark_email_sent returned true for a client in an
\* invocation of ses_handler.lambda_handler, that invocation has handed a
\* notification for the client to the delivery gateway by the time it ends.
C17_CooldownConsumedOnlyWithSend ==
    \A k \in MarkCalls :
        (k.call.ret /\ pc[k.proc] = "done") =>
            \E e \in Dispatched : e.proc = k.proc /\ e.client = k.call.client

\* lastEmailSent of a client is stored anew: from no value, or to a value
\* more than the cooldown above the one it replaces
StoredLater(c) ==
    client_table'[c].lastEmailSent # client_table[c].lastEmailSent =>
        /\ client_table'[c].lastEmailSent # None
        /\ client_table[c].lastEmailSent # None =>
               client_table'[c].lastEmailSent[1] - client_table[c].lastEmailSent[1]
                   > EMAIL_COOLDOWN_SECONDS

\* C18: for every interleaving of try_mark_email_sent calls, those applied
\* with a stale clock reading included, a client's stored lastEmailSent
\* never decreases, and a value stored over another is more than the
\* cooldown above it.
C18_LastEmailSentAdvancesPastCooldown ==
    /\ [][\A c \in Clients : StoredLater(c)]_vars
    /\ [](\A k \in MarkCalls :
              (k.call.ret /\ k.call.prev # None) =>
                  k.call.post[1] - k.call.prev[1] > EMAIL_COOLDOWN_SECONDS)

\* A call was still in flight when a later call read the clock; it was
\* applied with its stale reading, and the later call stored over it
C18_Witness ==
    \E k1, k2 \in MarkCalls :
        /\ k1.proc # k2.proc /\ k1.call.client = k2.call.client
        /\ k1.proc \in k2.call.during
        /\ k1.call.now_ts < k2.call.now_ts
        /\ k1.call.ret /\ k2.call.ret
        /\ k2.call.prev = <<k1.call.now_ts>>
        /\ client_table[k2.call.client].lastEmailSent = <<k2.call.now_ts>>

====
